---- MODULE Spec2Model ----
(***************************************************************************)
(* FinSight-AI ingestion pipeline: schema detection, exclusion filter,     *)
(* category resolution, normalisation, the per-file orchestrator and the   *)
(* deduplicating persister (main.py, ai_categorizer.py, db/db_loader.py,   *)
(* streamlit_app.py).                                                      *)
(*                                                                         *)
(* Text is a tuple of one-character strings, so that lower(), strip(),     *)
(* split() and the substring test are computed and not assumed.            *)
(***************************************************************************)
EXTENDS Integers, Sequences, FiniteSets, TLC

VARIABLES
    \* ---- category resolver (main.py, ai_categorizer.py, streamlit_app.py)
    FEEDBACK_TAGS,   \* correction memory: description -> category
    \* (the next five record the last call made to a resolver entry point
    \* on its own; calls made from inside normalize show in its batch)
    description,     \* the description of the last resolver call
    reply,           \* what the remote service answered in the last call
    remoteCalls,     \* how many requests the last call sent
    category,        \* what the last call returned
    lastOp,          \* which entry point ran last
    feedbackFile,    \* config/feedback_tags.json
    \* ---- schema detection (main.py detect_format)
    cols,            \* the column names of the file read
    fmt,             \* what detect_format returned for them
    \* ---- deduplicating persister (db/db_loader.py insert_dataframe)
    transactions,    \* the committed rows of table transactions, a bag
    lastInsert,      \* the last insert_dataframe call: its arguments, the
                     \* faults met, each row's outcome, the table before
    \* ---- orchestrator (main.py process_csv, run_pipeline)
    FILTER_KEYWORDS, \* the exclusion keywords loaded at start
    incoming,        \* names of the files in ./incoming
    processed,       \* names of the files in ./processed
    normalized,      \* ./normalized: source file name -> batch written
    pc,              \* run_pipeline: "start", "loop", "done" ("crashed":
                     \* left by an exception)
    discovered,      \* the files glob found
    remaining,       \* the files the for loop has yet to reach
    attempted,       \* the files process_csv was called on
    log              \* file name -> what was printed for it

categoryVars == <<FEEDBACK_TAGS, description, reply, remoteCalls, category,
                  lastOp, feedbackFile>>
detectVars == <<cols, fmt>>
persistVars == <<transactions, lastInsert>>
pipelineVars == <<FILTER_KEYWORDS, incoming, processed, normalized, pc,
                  discovered, remaining, attempted, log>>

vars == <<categoryVars, detectVars, persistVars, pipelineVars>>

----------------------------------------------------------------------------
(* Text helpers: Python's str.lower, str.strip, str.split, `x in s`.       *)

UpperChars == <<"A","B","C","D","E","F","G","H","I","J","K","L","M",
                "N","O","P","Q","R","S","T","U","V","W","X","Y","Z">>
LowerChars == <<"a","b","c","d","e","f","g","h","i","j","k","l","m",
                "n","o","p","q","r","s","t","u","v","w","x","y","z">>

\* the lower-case letter of each upper-case letter
UpperToLower ==
    [c \in {UpperChars[i] : i \in 1..Len(UpperChars)} |->
        LowerChars[CHOOSE i \in 1..Len(UpperChars) : UpperChars[i] = c]]

LowerChar(c) == IF c \in DOMAIN UpperToLower THEN UpperToLower[c] ELSE c

\* str.lower()
Lower(s) == [i \in 1..Len(s) |-> LowerChar(s[i])]

\* `needle in hay`
Contains(hay, needle) ==
    \E i \in 0..(Len(hay) - Len(needle)) :
        SubSeq(hay, i + 1, i + Len(needle)) = needle

Whitespace == {" ", "\n", "\t"}

RECURSIVE LStrip(_)
LStrip(s) ==
    IF s # <<>> /\ Head(s) \in Whitespace THEN LStrip(Tail(s)) ELSE s

RECURSIVE RStrip(_)
RStrip(s) ==
    IF s # <<>> /\ s[Len(s)] \in Whitespace
    THEN RStrip(SubSeq(s, 1, Len(s) - 1))
    ELSE s

\* str.strip()
Strip(s) == RStrip(LStrip(s))

\* the first token of str.split(): the text up to the first whitespace
RECURSIVE TakeToken(_)
TakeToken(s) ==
    IF s = <<>> \/ Head(s) \in Whitespace
    THEN <<>>
    ELSE <<Head(s)>> \o TakeToken(Tail(s))

\* str.split(): the whitespace-delimited tokens, none of them empty
RECURSIVE Split(_)
Split(s) ==
    LET t == LStrip(s)
        tok == TakeToken(t)
    IN  IF t = <<>> THEN <<>>
        ELSE <<tok>> \o Split(SubSeq(t, Len(tok) + 1, Len(t)))

----------------------------------------------------------------------------
(* Texts of the model.                                                     *)

None == <<"None">>   \* Python's None: no text, and no one-character tuple

Uncategorized == <<"U","n","c","a","t","e","g","o","r","i","z","e","d">>
Subscription  == <<"S","u","b","s","c","r","i","p","t","i","o","n">>
Transport     == <<"T","r","a","n","s","p","o","r","t">>
Shopping      == <<"S","h","o","p","p","i","n","g">>
Groceries     == <<"G","r","o","c","e","r","i","e","s">>
Dining        == <<"D","i","n","i","n","g">>
Travel        == <<"T","r","a","v","e","l">>

\* VENDOR_MAP, in the dict's insertion order
VENDOR_MAP ==
    << [vendor |-> <<"n","e","t","f","l","i","x">>, tag |-> Subscription],
       [vendor |-> <<"s","p","o","t","i","f","y">>, tag |-> Subscription],
       [vendor |-> <<"u","b","e","r">>,             tag |-> Transport],
       [vendor |-> <<"a","m","a","z","o","n">>,     tag |-> Shopping],
       [vendor |-> <<"w","a","l","m","a","r","t">>, tag |-> Groceries] >>

UberTrip    == <<"U","b","e","r"," ","T","r","i","p">>
AmazonUber  == <<"a","m","a","z","o","n"," ","U","B","E","R">>
NetflixCom  == <<"N","E","T","F","L","I","X",".","c","o","m">>
CornerCafe  == <<"C","o","r","n","e","r"," ","C","a","f","e">>
PaymentThx  == <<"P","A","Y","M","E","N","T"," ","t","h","x">>

Descriptions == {UberTrip, AmazonUber, NetflixCom, CornerCafe}

\* the descriptions a user corrects through the UI
CorrectedDescriptions == {UberTrip, CornerCafe}

\* what the correction memory may hold for a description
MemoryTags == {Dining, Travel, <<>>}

\* response texts of the remote service
ResponseTexts ==
    { Dining,
      <<" ","D","i","n","i","n","g","\n">>,
      <<"F","o","o","d"," ","a","n","d"," ","D","i","n","i","n","g">>,
      <<"\n","T","r","a","v","e","l"," "," ","o","r"," ","F","u","n">>,
      <<" ","\n">> }

NoReply == [kind |-> "none", status |-> 0, body |-> "none", response |-> <<>>]

\* kind: the transport's outcome; status: the HTTP status; body: what
\* resp.json() finds (not JSON, a JSON list, an object without "response",
\* "response": null, "response": <text>)
Replies ==
    { [kind |-> k, status |-> 0, body |-> "none", response |-> <<>>] :
          k \in {"timeout", "connerror"} }
    \cup
    { [kind |-> "http", status |-> 200, body |-> b, response |-> <<>>] :
          b \in {"notjson", "list", "nokey", "null"} }
    \cup
    { [kind |-> "http", status |-> 500, body |-> b, response |-> <<>>] :
          b \in {"notjson", "nokey"} }
    \cup
    { [kind |-> "http", status |-> 200, body |-> "text", response |-> t] :
          t \in ResponseTexts }
    \cup
    { [kind |-> "http", status |-> 500, body |-> "text", response |-> Dining] }

----------------------------------------------------------------------------
(* Category resolution.                                                    *)

\* Python truthiness of an optional text: None and "" are falsy
Truthy(x) == x # None /\ x # <<>>

\* the loop of tag_vendor over a vendor map: the first rule, in the map's
\* order, whose vendor is a substring of the lowered description
VendorLookup(map, d) ==
    LET desc_lower == Lower(d)
        hits == {i \in 1..Len(map) : Contains(desc_lower, map[i].vendor)}
    IN  IF hits = {} THEN None
        ELSE map[CHOOSE i \in hits : \A j \in hits : i <= j].tag

tag_vendor(d) == VendorLookup(VENDOR_MAP, d)

\* the request of ai_categorize and what it makes of the answer:
\* resp.json().get("response", "Uncategorized").strip(), any exception
\* giving "Uncategorized". The status code is never read.
SuggestCategory(r) ==
    IF r.kind # "http" THEN Uncategorized          \* requests.post raised
    ELSE CASE r.body = "notjson" -> Uncategorized  \* resp.json() raised
           [] r.body = "list"    -> Uncategorized  \* no .get on a list
           [] r.body = "nokey"   -> Strip(Uncategorized)
           [] r.body = "null"    -> Uncategorized  \* None has no .strip
           [] OTHER              -> Strip(r.response)

\* main.py ai_categorize: the correction memory, then the remote service
ai_categorize(d, tags, r) ==
    IF d \in DOMAIN tags
    THEN [value |-> tags[d], calls |-> 0]
    ELSE [value |-> SuggestCategory(r), calls |-> 1]

get_category_memory_first(d, tags, r) ==
    IF d \in DOMAIN tags
    THEN [value |-> tags[d], calls |-> 0]
    ELSE IF Truthy(tag_vendor(d))
         THEN [value |-> tag_vendor(d), calls |-> 0]
         ELSE [value |-> SuggestCategory(r), calls |-> 1]

\* main.py get_category: tag_vendor(description) or ai_categorize(description)
get_category(d, tags, r) ==
    IF Truthy(tag_vendor(d))
    THEN [value |-> tag_vendor(d), calls |-> 0]
    ELSE ai_categorize(d, tags, r)

\* ai_categorizer.py categorize_transaction: raise_for_status, then
\* response.json()["response"].strip().split()[0]
categorize_transaction(r) ==
    IF r.kind # "http" THEN Uncategorized
    ELSE IF r.status >= 400 THEN Uncategorized     \* raise_for_status
    ELSE IF r.body # "text" THEN Uncategorized     \* json(), [..], .strip raise
    ELSE IF Split(Strip(r.response)) = <<>> THEN Uncategorized  \* IndexError
    ELSE Split(Strip(r.response))[1]

\* streamlit_app.py load_data, one row:
\* row["category"] or tag_vendor(..) or ai_categorize(..), the dashboard's
\* ai_categorize having no correction memory
load_data_category(stored, d, r) ==
    IF Truthy(stored) THEN [value |-> stored, calls |-> 0]
    ELSE IF Truthy(VendorLookup(VENDOR_MAP, d))
         THEN [value |-> VendorLookup(VENDOR_MAP, d), calls |-> 0]
         ELSE [value |-> SuggestCategory(r), calls |-> 1]

\* update_tag_feedback's assignment FEEDBACK_TAGS[description] = corrected_tag
SetTag(tags, d, t) ==
    [x \in (DOMAIN tags) \cup {d} |-> IF x = d THEN t ELSE tags[x]]

EmptyTags == [x \in {} |-> <<>>]

TagMaps(keys) == UNION {[k -> MemoryTags] : k \in SUBSET keys}

----------------------------------------------------------------------------
(* The resolver's entry points.                                            *)

\* the resolver before any call, the memory loaded from its file
CategoryStart(file) ==
    /\ feedbackFile = file
    /\ FEEDBACK_TAGS = feedbackFile        \* load_feedback_tags()
    /\ description = <<>>
    /\ reply = NoReply
    /\ remoteCalls = 0
    /\ category = None
    /\ lastOp = "init"

DetectStart(c) == cols = c /\ fmt = "none"

NoInsert == [filename |-> "", batch |-> <<>>, faults |-> <<>>,
             outcome |-> <<>>, before |-> <<>>]

\* an empty table, no call made
PersistStart == transactions = <<>> /\ lastInsert = NoInsert

\* run_pipeline not yet called, the given files waiting in ./incoming
PipelineStart(keywords, files) ==
    /\ FILTER_KEYWORDS = keywords
    /\ incoming = files
    /\ processed = {}
    /\ normalized = <<>>
    /\ pc = "start"
    /\ discovered = {}
    /\ remaining = {}
    /\ attempted = {}
    /\ log = <<>>

InitCategory ==
    /\ \E file \in TagMaps(CorrectedDescriptions) : CategoryStart(file)
    /\ DetectStart({})
    /\ PersistStart
    /\ PipelineStart(<<>>, {})

GetCategory ==
    \E d \in Descriptions, r \in Replies :
        \E res \in {get_category(d, FEEDBACK_TAGS, r)} :
            /\ description' = d
            /\ category' = res.value
            /\ remoteCalls' = res.calls
            /\ reply' = IF res.calls = 0 THEN NoReply ELSE r
            /\ lastOp' = "get_category"
            /\ UNCHANGED <<FEEDBACK_TAGS, feedbackFile, detectVars, persistVars,
                         pipelineVars>>

CategorizeTransaction ==
    \E d \in Descriptions, r \in Replies :
        /\ description' = d
        /\ category' = categorize_transaction(r)
        /\ remoteCalls' = 1
        /\ reply' = r
        /\ lastOp' = "categorize_transaction"
        /\ UNCHANGED <<FEEDBACK_TAGS, feedbackFile, detectVars, persistVars,
                         pipelineVars>>

LoadDataCategory ==
    \E stored \in {None, <<>>, Travel}, d \in Descriptions, r \in Replies :
        \E res \in {load_data_category(stored, d, r)} :
            /\ description' = d
            /\ category' = res.value
            /\ remoteCalls' = res.calls
            /\ reply' = IF res.calls = 0 THEN NoReply ELSE r
            /\ lastOp' = "load_data"
            /\ UNCHANGED <<FEEDBACK_TAGS, feedbackFile, detectVars, persistVars,
                         pipelineVars>>

UpdateTagFeedback ==
    \E d \in CorrectedDescriptions, t \in MemoryTags :
        /\ FEEDBACK_TAGS' = SetTag(FEEDBACK_TAGS, d, t)
        /\ feedbackFile' = FEEDBACK_TAGS'  \* save_feedback_tags
        /\ lastOp' = "update_tag_feedback"
        /\ UNCHANGED <<description, reply, remoteCalls, category, detectVars,
                     persistVars, pipelineVars>>

NextCategory ==
    \/ GetCategory
    \/ CategorizeTransaction
    \/ LoadDataCategory
    \/ UpdateTagFeedback

SpecCategory == InitCategory /\ [][NextCategory]_vars

----------------------------------------------------------------------------------------------------------------------------------------------
(* Schema detection.                                                       *)

AmexColumn == "Appears On Your Statement As"
ChaseColumns == {"Transaction Date", "Post Date", "Description", "Category",
                 "Type", "Amount", "Memo"}
BiltColumns == {"Transaction Date", "Description", "Points", "Category"}
CaponeColumns == {"Posted Date", "Card No.", "Debit", "Credit"}

\* every column name detect_format and normalize look at
ColumnNames ==
    {AmexColumn, "Date", "Card No."} \cup ChaseColumns \cup BiltColumns
        \cup CaponeColumns

detect_format_chase_first(c) ==
    IF ChaseColumns \subseteq c THEN "chase"
    ELSE IF AmexColumn \in c THEN "amex"
    ELSE IF BiltColumns \subseteq c /\ "Card No." \notin c THEN "bilt"
    ELSE IF CaponeColumns \subseteq c THEN "capone"
    ELSE "unknown"

detect_format(c) ==
    IF AmexColumn \in c THEN "amex"
    ELSE IF ChaseColumns \subseteq c THEN "chase"
    ELSE IF BiltColumns \subseteq c /\ "Card No." \notin c THEN "bilt"
    ELSE IF CaponeColumns \subseteq c THEN "capone"
    ELSE "unknown"

InitDetect ==
    /\ \E c \in SUBSET ColumnNames : DetectStart(c)
    /\ CategoryStart(EmptyTags)
    /\ PersistStart
    /\ PipelineStart(<<>>, {})

DetectFormat ==
    /\ fmt = "none"
    /\ fmt' = detect_format(cols)
    /\ UNCHANGED <<cols, categoryVars, persistVars, pipelineVars>>

\* the next file's header is read
ReadHeader ==
    /\ fmt # "none"
    /\ \E c \in {{AmexColumn, "Date", "Description", "Amount"}, ChaseColumns,
                 BiltColumns, CaponeColumns} :
           cols' = c
    /\ fmt' = "none"
    /\ UNCHANGED <<categoryVars, persistVars, pipelineVars>>

NextDetect == DetectFormat \/ ReadHeader

SpecDetect == InitDetect /\ [][NextDetect]_vars

\* C6: detect_format depends on the column set alone; each of the four
\* signatures gives its institution's label, the predicates are tried in the
\* order amex, chase, bilt, capone with the first match winning, and a column
\* set matching no predicate gives "unknown".
C6_DetectFormat ==
    fmt # "none" =>
        LET amex == AmexColumn \in cols
            chase == ChaseColumns \subseteq cols
            bilt == BiltColumns \subseteq cols /\ "Card No." \notin cols
            capone == CaponeColumns \subseteq cols
        IN  /\ fmt \in {"amex", "chase", "bilt", "capone", "unknown"}
            /\ amex => fmt = "amex"
            /\ (chase /\ ~amex) => fmt = "chase"
            /\ (bilt /\ ~amex /\ ~chase) => fmt = "bilt"
            /\ (capone /\ ~amex /\ ~chase /\ ~bilt) => fmt = "capone"
            /\ (fmt = "unknown") <=> ~(amex \/ chase \/ bilt \/ capone)
            /\ cols = ChaseColumns => fmt = "chase"
            /\ cols = BiltColumns => fmt = "bilt"
            /\ cols = CaponeColumns => fmt = "capone"

\* a header matching both the AmEx and the Chase predicate was detected
C6_Witness ==
    /\ fmt = "amex"
    /\ ChaseColumns \subseteq cols
    /\ AmexColumn \in cols

----------------------------------------------------------------------------------------------------------------------------------------------
(* Values of a data frame: a cell is a text or NaN (an empty cell); a      *)
(* number is a record, in cents; a date is a record.                       *)

NaN == <<"NaN">>                       \* pandas' missing cell
Num(c) == [kind |-> "num", cents |-> c]
NaNNum == [kind |-> "nan", cents |-> 0]
ValueError == [kind |-> "error", cents |-> 0]

DigitChars == <<"0","1","2","3","4","5","6","7","8","9">>

DigitVal ==
    [c \in {DigitChars[i] : i \in 1..Len(DigitChars)} |->
        (CHOOSE i \in 1..Len(DigitChars) : DigitChars[i] = c) - 1]

AllDigits(s) == \A i \in 1..Len(s) : s[i] \in DOMAIN DigitVal

RECURSIVE ToNat(_)
ToNat(s) ==
    IF s = <<>> THEN 0
    ELSE 10 * ToNat(SubSeq(s, 1, Len(s) - 1)) + DigitVal[s[Len(s)]]

\* str.replace(",", "")
RECURSIVE RemoveCommas(_)
RemoveCommas(s) ==
    IF s = <<>> THEN <<>>
    ELSE IF Head(s) = "," THEN RemoveCommas(Tail(s))
    ELSE <<Head(s)>> \o RemoveCommas(Tail(s))

\* float() of a cell, to the cent: [-]digits[.d[d]]; NaN stays NaN; any
\* other text (one with a thousands separator, say) is a ValueError
ToFloat(v) ==
    IF v = NaN \/ v = <<"n","a","n">> THEN NaNNum
    ELSE LET neg == v # <<>> /\ Head(v) = "-"
             body == IF neg THEN Tail(v) ELSE v
             dots == {i \in 1..Len(body) : body[i] = "."}
             dot == IF dots = {} THEN Len(body) + 1
                    ELSE CHOOSE i \in dots : \A j \in dots : i <= j
             whole == SubSeq(body, 1, dot - 1)
             frac == SubSeq(body, dot + 1, Len(body))
             cents == ToNat(whole) * 100 +
                      (IF Len(frac) = 0 THEN 0
                       ELSE IF Len(frac) = 1 THEN 10 * ToNat(frac)
                       ELSE ToNat(frac))
         IN  IF whole # <<>> /\ AllDigits(whole) /\ AllDigits(frac)
                 /\ Len(frac) <= 2
             THEN Num(IF neg THEN 0 - cents ELSE cents)
             ELSE ValueError

\* Series.abs()
Abs(n) == IF n.kind = "num" /\ n.cents < 0 THEN Num(0 - n.cents) ELSE n

\* fillna(0)
FillNa0(v) == IF v = NaN THEN <<"0">> ELSE v

\* debit - credit
Minus(x, y) ==
    IF x.kind = "error" \/ y.kind = "error" THEN ValueError
    ELSE IF x.kind = "nan" \/ y.kind = "nan" THEN NaNNum
    ELSE Num(x.cents - y.cents)

DateError == [year |-> 0, month |-> 0, day |-> 0]
NaT == [year |-> 0, month |-> 0, day |-> 1]

\* pd.to_datetime of a cell written YYYY-MM-DD or MM/DD/YYYY
ToDatetime(v) ==
    IF v = NaN THEN NaT
    ELSE IF Len(v) = 10 /\ v[5] = "-" /\ v[8] = "-"
        /\ AllDigits(SubSeq(v, 1, 4)) /\ AllDigits(SubSeq(v, 6, 7))
        /\ AllDigits(SubSeq(v, 9, 10))
    THEN [year |-> ToNat(SubSeq(v, 1, 4)), month |-> ToNat(SubSeq(v, 6, 7)),
          day |-> ToNat(SubSeq(v, 9, 10))]
    ELSE IF Len(v) = 10 /\ v[3] = "/" /\ v[6] = "/"
        /\ AllDigits(SubSeq(v, 1, 2)) /\ AllDigits(SubSeq(v, 4, 5))
        /\ AllDigits(SubSeq(v, 7, 10))
    THEN [year |-> ToNat(SubSeq(v, 7, 10)), month |-> ToNat(SubSeq(v, 1, 2)),
          day |-> ToNat(SubSeq(v, 4, 5))]
    ELSE DateError

\* str() of a cell
Str(v) == IF v = NaN THEN <<"n","a","n">> ELSE v

----------------------------------------------------------------------------
(* Exclusion filter and merchant enrichment.                               *)

\* load_filter_keywords: the stripped, lowered, non-blank lines
RECURSIVE load_filter_keywords(_)
load_filter_keywords(lines) ==
    IF lines = <<>> THEN <<>>
    ELSE IF Strip(Head(lines)) = <<>> THEN load_filter_keywords(Tail(lines))
    ELSE <<Lower(Strip(Head(lines)))>> \o load_filter_keywords(Tail(lines))

should_exclude_case_sensitive(d, keywords) ==
    \E k \in 1..Len(keywords) : Contains(Str(d), keywords[k])

\* should_exclude: any keyword in str(description).lower()
should_exclude(d, keywords) ==
    LET desc == Lower(Str(d))
    IN  \E k \in 1..Len(keywords) : Contains(desc, keywords[k])

CafeInc == <<"C","a","f","e"," ","I","n","c">>

\* answers of the enrichment service: no answer, a non-200 status, 200
\* with no candidate, 200 with a first candidate's name
EnrichReplies ==
    { [kind |-> "timeout", status |-> 0, names |-> <<>>],
      [kind |-> "http", status |-> 404, names |-> <<CafeInc>>],
      [kind |-> "http", status |-> 200, names |-> <<>>],
      [kind |-> "http", status |-> 200, names |-> <<CafeInc, Dining>>] }

\* enrich_merchant: data[0]['name'] of a 200 answer, else the description
enrich_merchant(d, e) ==
    IF e.kind = "http" /\ e.status = 200 /\ e.names # <<>>
    THEN e.names[1]
    ELSE d

----------
(* The deduplicating persister.  The table is a bag of rows (a function    *)
(* from row to the number of copies stored).  One connection, one          *)
(* transaction per call: `with psycopg2.connect(..) as conn` commits when  *)
(* the block ends without an exception.                                    *)

MaxBatch == 2    \* rows of one batch

\* the uniqueness key of table transactions
DedupKey(row) ==
    <<row.date, row.description, row.amount, row.source, row.filename>>

BagCount(bag, row) == IF row \in DOMAIN bag THEN bag[row] ELSE 0

BagAdd(bag, row) ==
    [x \in (DOMAIN bag) \cup {row} |->
        IF x = row THEN BagCount(bag, row) + 1 ELSE bag[x]]

RECURSIVE BagAddAll(_, _)
BagAddAll(bag, rows) ==
    IF rows = <<>> THEN bag ELSE BagAddAll(BagAdd(bag, Head(rows)), Tail(rows))

\* the insert would break the uniqueness constraint
Conflicts(bag, pending, row) ==
    \/ \E x \in DOMAIN bag : DedupKey(x) = DedupKey(row)
    \/ \E i \in 1..Len(pending) : DedupKey(pending[i]) = DedupKey(row)

\* row.get("direction", "outflow")
Direction(row) ==
    IF "direction" \in DOMAIN row THEN row.direction ELSE "outflow"

\* the tuple handed to cur.execute; df["filename"] = filename set the last
ValuesOf(row, filename) ==
    [date |-> row.date, description |-> row.description,
     amount |-> row.amount, category |-> row.category,
     direction |-> Direction(row), source |-> row.source,
     filename |-> filename]

\* an INSERT without the ON CONFLICT clause: a stored key is a uniqueness
\* violation, an error of the statement
ExecuteInsertNoOnConflict(bag, tx, values, fault) ==
    IF fault = "client" THEN [tx |-> tx, outcome |-> "error"]
    ELSE IF tx.aborted THEN [tx |-> tx, outcome |-> "error"]
    ELSE IF fault = "server" \/ Conflicts(bag, tx.pending, values)
         THEN [tx |-> [tx EXCEPT !.aborted = TRUE], outcome |-> "error"]
    ELSE [tx |-> [tx EXCEPT !.pending = Append(@, values)],
          outcome |-> "inserted"]

\* one pass of the loop body: the try around cur.execute(INSERT .. ON
\* CONFLICT DO NOTHING).  fault "client": the exception is raised before the
\* statement reaches the server (building the tuple, adapting a value);
\* fault "server": the server rejects the statement for a reason other than
\* the key, which leaves the transaction aborted; in an aborted transaction
\* every later statement is rejected.
ExecuteInsert(bag, tx, values, fault) ==
    IF fault = "client" THEN [tx |-> tx, outcome |-> "error"]
    ELSE IF tx.aborted THEN [tx |-> tx, outcome |-> "error"]
    ELSE IF fault = "server"
         THEN [tx |-> [tx EXCEPT !.aborted = TRUE], outcome |-> "error"]
    ELSE IF Conflicts(bag, tx.pending, values)
         THEN [tx |-> tx, outcome |-> "skipped"]
    ELSE [tx |-> [tx EXCEPT !.pending = Append(@, values)],
          outcome |-> "inserted"]

\* the for loop over df.iterrows(), from row i on
RECURSIVE InsertRows(_, _, _, _, _, _, _)
InsertRows(bag, tx, batch, filename, faults, i, outcome) ==
    IF i > Len(batch) THEN [tx |-> tx, outcome |-> outcome]
    ELSE LET r == ExecuteInsert(bag, tx, ValuesOf(batch[i], filename), faults[i])
         IN  InsertRows(bag, r.tx, batch, filename, faults, i + 1,
                        Append(outcome, r.outcome))

\* leaving the with block: COMMIT; the server ends an aborted transaction
\* by rolling it back
Commit(bag, tx) == IF tx.aborted THEN bag ELSE BagAddAll(bag, tx.pending)

insert_dataframe(bag, batch, filename, faults) ==
    LET r == InsertRows(bag, [pending |-> <<>>, aborted |-> FALSE], batch,
                        filename, faults, 1, <<>>)
    IN  [table |-> Commit(bag, r.tx), outcome |-> r.outcome]

\* canonical records handed to the persister
BatchRows ==
    { [date |-> [year |-> 2024, month |-> 1, day |-> 5],
       description |-> UberTrip, amount |-> Num(1500),
       category |-> Transport, source |-> "CapitalOne"],
      [date |-> [year |-> 2024, month |-> 1, day |-> 5],
       description |-> UberTrip, amount |-> Num(1500),
       category |-> Dining, source |-> "CapitalOne",
       direction |-> "inflow"] }

Filenames == {"a.csv", "b.csv"}

Batches == UNION {[1..n -> BatchRows] : n \in 0..MaxBatch}

\* at most one row of a call meets a fault
FaultsFor(batch) ==
    {[i \in 1..Len(batch) |-> "none"]} \cup
    {[i \in 1..Len(batch) |-> IF i = k THEN f ELSE "none"] :
        k \in 1..Len(batch), f \in {"client", "server"}}

InitPersist ==
    /\ PersistStart
    /\ CategoryStart(EmptyTags)
    /\ DetectStart({})
    /\ PipelineStart(<<>>, {})

InsertDataframe ==
    \E batch \in Batches, filename \in Filenames :
        \E faults \in FaultsFor(batch) :
            \E r \in {insert_dataframe(transactions, batch, filename, faults)} :
                /\ transactions' = r.table
                /\ lastInsert' = [filename |-> filename, batch |-> batch,
                                  faults |-> faults, outcome |-> r.outcome,
                                  before |-> transactions]
                /\ UNCHANGED <<categoryVars, detectVars, pipelineVars>>

NextPersist == InsertDataframe

SpecPersist == InitPersist /\ [][NextPersist]_vars

\* some row of the table before the call, or an earlier row of the batch
\* that was inserted, has row i's key
KeyAlreadyThere(call, i) ==
    \/ \E x \in DOMAIN call.before :
          DedupKey(x) = DedupKey(ValuesOf(call.batch[i], call.filename))
    \/ \E j \in 1..(i - 1) :
          /\ call.outcome[j] = "inserted"
          /\ DedupKey(ValuesOf(call.batch[j], call.filename))
                = DedupKey(ValuesOf(call.batch[i], call.filename))

NoFault(call) == \A i \in 1..Len(call.faults) : call.faults[i] = "none"

TableSize(bag) ==
    LET RECURSIVE Sum(_)
        Sum(S) == IF S = {} THEN 0
                  ELSE LET x == CHOOSE y \in S : TRUE
                       IN  bag[x] + Sum(S \ {x})
    IN  Sum(DOMAIN bag)

\* C2: after any sequence of insert_dataframe calls no two stored rows have
\* the same key (date, description, amount, source, filename); in a call
\* that meets no fault, a record whose key is already stored is skipped,
\* not an error, and adds no row.
C2_NoDuplicateKeys ==
    /\ \A x \in DOMAIN transactions :
          /\ transactions[x] = 1
          /\ \A y \in DOMAIN transactions :
                DedupKey(x) = DedupKey(y) => x = y
    /\ NoFault(lastInsert) =>
          /\ \A i \in 1..Len(lastInsert.batch) :
                lastInsert.outcome[i] =
                    IF KeyAlreadyThere(lastInsert, i) THEN "skipped"
                    ELSE "inserted"
          /\ TableSize(transactions) - TableSize(lastInsert.before) =
                Cardinality({i \in 1..Len(lastInsert.batch) :
                                ~KeyAlreadyThere(lastInsert, i)})

\* a batch was inserted a second time under the same filename and added
\* nothing
C2_Witness ==
    /\ lastInsert.batch # <<>>
    /\ NoFault(lastInsert)
    /\ \A i \in 1..Len(lastInsert.batch) : lastInsert.outcome[i] = "skipped"
    /\ transactions = lastInsert.before
    /\ \E i \in 1..Len(lastInsert.batch) :
          ValuesOf(lastInsert.batch[i], lastInsert.filename)
              \in DOMAIN transactions

\* C8: when one row's insert fails for a reason other than the key, every
\* other row of the batch that met no fault is stored once the call returns.
C8_RowIsolation ==
    \A i \in 1..Len(lastInsert.batch) :
        lastInsert.faults[i] = "none" =>
            \E x \in DOMAIN transactions :
                DedupKey(x) = DedupKey(ValuesOf(lastInsert.batch[i],
                                                lastInsert.filename))

----------------------------------------------------------------------------
(* Normalisation and the orchestrator.                                     *)

MaxFiles == 3    \* files waiting in ./incoming when run_pipeline starts

\* a data frame row: every column of the header, empty cells NaN
Row(header, cells) ==
    [c \in header |-> IF c \in DOMAIN cells THEN cells[c] ELSE NaN]

Frame(header, cells) ==
    [header |-> header,
     rows |-> [i \in 1..Len(cells) |-> Row(header, cells[i])]]

\* the CSV files of the model, by name
FileContent ==
    [ name \in {"capone.csv", "chase.csv", "amex.csv", "bilt.csv",
                "bilt_noamount.csv", "notes.csv"} |->
        CASE name = "capone.csv" ->
               Frame(CaponeColumns \cup {"Transaction Date", "Description",
                                         "Category"},
                     << ("Transaction Date" :> <<"2","0","2","4","-","0","1","-","0","5">>)
                          @@ ("Description" :> UberTrip)
                          @@ ("Debit" :> <<"1","5",".","0","0">>),
                        ("Transaction Date" :> <<"2","0","2","4","-","0","1","-","0","6">>)
                          @@ ("Description" :> PaymentThx)
                          @@ ("Credit" :> <<"5","0",".","0","0">>) >>)
          [] name = "chase.csv" ->
               Frame(ChaseColumns,
                     << ("Transaction Date" :> <<"0","1","/","0","7","/","2","0","2","4">>)
                          @@ ("Description" :> CornerCafe)
                          @@ ("Amount" :> <<"-","1",",","2","0","0",".","5","0">>) >>)
          [] name = "amex.csv" ->
               Frame({AmexColumn, "Date", "Description", "Amount"},
                     << ("Date" :> <<"0","1","/","0","8","/","2","0","2","4">>)
                          @@ ("Description" :> NetflixCom)
                          @@ ("Amount" :> <<"-","1","5",".","9","9">>) >>)
          [] name = "bilt.csv" ->
               Frame(BiltColumns \cup {"Amount"},
                     << ("Transaction Date" :> <<"2","0","2","4","-","0","2","-","0","1">>)
                          @@ ("Description" :> CornerCafe)
                          @@ ("Amount" :> <<"7",".","5">>) >>)
          [] name = "bilt_noamount.csv" ->
               Frame(BiltColumns,
                     << ("Transaction Date" :> <<"2","0","2","4","-","0","2","-","0","2">>)
                          @@ ("Description" :> UberTrip) >>)
          [] OTHER ->
               Frame({"Memo", "Type"}, << ("Memo" :> CornerCafe) >>) ]

FileNames == DOMAIN FileContent

\* the lines of config/filter_keywords.txt
KeywordFiles ==
    { <<>>,
      << <<"P","a","y","m","e","n","t","\n">>, <<"\n">>,
         <<" ","c","a","f","e","\n">> >> }

\* answers of the categorization service met while a file is processed
PipelineReplies ==
    { [kind |-> "timeout", status |-> 0, body |-> "none", response |-> <<>>],
      [kind |-> "http", status |-> 200, body |-> "text", response |-> Dining] }

SourceLabel(source) ==
    CASE source = "amex" -> "Amex"
      [] source = "chase" -> "Chase"
      [] source = "bilt" -> "Bilt"
      [] source = "capone" -> "CapitalOne"

\* the columns normalize indexes for a source
RequiredColumns(source) ==
    CASE source = "amex" -> {"Description", "Date", "Amount"}
      [] source = "chase" -> {"Description", "Transaction Date", "Amount"}
      [] source = "bilt" -> {"Description", "Transaction Date", "Amount"}
      [] source = "capone" ->
            {"Description", "Transaction Date", "Debit", "Credit"}

\* the amount of a row, per source
AmountOf(row, source) ==
    CASE source = "chase" -> Abs(ToFloat(RemoveCommas(Str(row["Amount"]))))
      [] source = "capone" ->
            Minus(ToFloat(FillNa0(row["Debit"])), ToFloat(FillNa0(row["Credit"])))
      [] OTHER -> ToFloat(row["Amount"])

\* df[~df["Description"].apply(should_exclude)]: the indexes kept, in order
RECURSIVE KeptFrom(_, _, _)
KeptFrom(rows, keywords, i) ==
    IF i > Len(rows) THEN <<>>
    ELSE IF should_exclude(rows[i]["Description"], keywords)
         THEN KeptFrom(rows, keywords, i + 1)
    ELSE <<i>> \o KeptFrom(rows, keywords, i + 1)

NormalizeRaised == [raised |-> TRUE, batch |-> <<>>]

\* normalize(df, source); enr[i] and rep[i] are what the enrichment and the
\* categorization service answer for row i.  The result keeps the data
\* frame's index (idx), which to_csv(index=False) does not write.
normalize(df, source, keywords, tags, enr, rep) ==
    IF "Description" \notin df.header THEN NormalizeRaised     \* KeyError
    ELSE IF source \notin {"amex", "chase", "bilt", "capone"}
         THEN NormalizeRaised                                  \* ValueError
    ELSE IF ~(RequiredColumns(source) \subseteq df.header)
         THEN NormalizeRaised                                  \* KeyError
    ELSE
        LET kept == KeptFrom(df.rows, keywords, 1)
            dateColumn == IF source = "amex" THEN "Date" ELSE "Transaction Date"
            out == [j \in 1..Len(kept) |->
                      LET row == df.rows[kept[j]]
                      IN  [idx |-> kept[j],
                           date |-> ToDatetime(row[dateColumn]),
                           description |->
                               enrich_merchant(row["Description"], enr[kept[j]]),
                           amount |-> AmountOf(row, source),
                           category |->
                               get_category(row["Description"], tags,
                                            rep[kept[j]]).value,
                           source |-> SourceLabel(source)]]
        IN  IF \E j \in 1..Len(out) :
                   out[j].amount = ValueError \/ out[j].date = DateError
            THEN NormalizeRaised
            ELSE [raised |-> FALSE, batch |-> out]

\* process_csv(file_path); fail is the I/O step that raises, if any.
\* wrote: the normalized file was written; moved: the source file was
\* renamed into ./processed; raised: an exception left the function.
process_csv(name, keywords, tags, fail, enr, rep) ==
    LET df == FileContent[name]
        source == detect_format(df.header)
        norm == normalize(df, source, keywords, tags, enr, rep)
        nothing == [raised |-> TRUE, printed |-> "none", wrote |-> FALSE,
                    batch |-> <<>>, moved |-> FALSE]
    IN  IF fail = "read" THEN nothing
        ELSE IF source = "unknown"
             THEN [nothing EXCEPT !.raised = FALSE, !.printed = "unknown"]
        ELSE IF norm.raised THEN nothing
        ELSE IF fail = "write" THEN nothing
        ELSE IF fail = "move"
             THEN [nothing EXCEPT !.wrote = TRUE, !.batch = norm.batch]
        ELSE [raised |-> FALSE, printed |-> "processed", wrote |-> TRUE,
              batch |-> norm.batch, moved |-> TRUE]

run_pipeline_no_except(raised, rest) ==
    IF raised THEN "crashed" ELSE IF rest = {} THEN "done" ELSE "loop"

\* where run_pipeline goes after one file: `except Exception` prints and
\* the loop goes on to the files left, ending when there are none
run_pipeline(raised, rest) == IF rest = {} THEN "done" ELSE "loop"

InitPipeline ==
    /\ \E lines \in KeywordFiles, files \in SUBSET FileNames :
          /\ Cardinality(files) <= MaxFiles
          /\ PipelineStart(load_filter_keywords(lines), files)
    /\ CategoryStart([d \in {CornerCafe} |-> Travel])
    /\ DetectStart({})
    /\ PersistStart

\* for file in INCOMING_DIR.glob("*.csv"): the directory is listed once
RunPipelineStart ==
    /\ pc = "start"
    /\ discovered' = incoming
    /\ remaining' = incoming
    /\ pc' = IF incoming = {} THEN "done" ELSE "loop"
    /\ UNCHANGED <<FILTER_KEYWORDS, incoming, processed, normalized,
                   attempted, log, categoryVars, detectVars, persistVars>>

\* one pass of the loop: process_csv on the next file, in whatever order
\* the directory listing gives
RunPipelineFile ==
    /\ pc = "loop"
    /\ \E name \in remaining, fail \in {"none", "read", "write", "move"} :
        \E enr \in [1..Len(FileContent[name].rows) -> EnrichReplies],
           rep \in [1..Len(FileContent[name].rows) -> PipelineReplies] :
            \E r \in {process_csv(name, FILTER_KEYWORDS, FEEDBACK_TAGS,
                                  fail, enr, rep)} :
                /\ attempted' = attempted \cup {name}
                /\ remaining' = remaining \ {name}
                /\ normalized' =
                      IF r.wrote
                      THEN [f \in (DOMAIN normalized) \cup {name} |->
                               IF f = name THEN r.batch ELSE normalized[f]]
                      ELSE normalized
                /\ incoming' = IF r.moved THEN incoming \ {name} ELSE incoming
                /\ processed' =
                      IF r.moved THEN processed \cup {name} ELSE processed
                /\ log' = [f \in (DOMAIN log) \cup {name} |->
                             IF f = name
                             THEN IF r.raised THEN "failed" ELSE r.printed
                             ELSE log[f]]
                /\ pc' = run_pipeline(r.raised, remaining')
                /\ UNCHANGED <<FILTER_KEYWORDS, discovered, categoryVars,
                               detectVars, persistVars>>

NextPipeline == RunPipelineStart \/ RunPipelineFile

SpecPipeline == InitPipeline /\ [][NextPipeline]_vars

----------------------------------------------------------------------------
(* Properties of the orchestrator and of normalisation.                    *)

\* the row of a normalized batch, with the filename insert_dataframe would
\* give it, is in the table
Stored(row, name) ==
    \E x \in DOMAIN transactions : DedupKey(x) = DedupKey(ValuesOf(row, name))

\* C1: no file is in ./processed without the rows of its normalized batch
\* having been persisted.
C1_PersistedBeforeMove ==
    \A name \in processed :
        /\ name \in DOMAIN normalized
        /\ \A j \in 1..Len(normalized[name]) : Stored(normalized[name][j], name)

\* C3: whichever files fail, run_pipeline is never stopped by a file: until
\* it is done it has a next step, every step takes one file off the files
\* left, and when it is done process_csv was called on every file found.
C3_EveryFileAttempted ==
    /\ pc = "done" \/ pc = "start" \/ (pc = "loop" /\ remaining # {})
    /\ pc # "start" =>
          /\ attempted \cup remaining = discovered
          /\ attempted \cap remaining = {}
    /\ pc = "done" => attempted = discovered /\ DOMAIN log = discovered

\* a run over several files ended, every one of them having failed
C3_Witness ==
    /\ pc = "done"
    /\ Cardinality(discovered) >= 2
    /\ attempted = discovered
    /\ \A name \in discovered : log[name] = "failed"

\* the description holds one of the loaded keywords, case folded
HasKeyword(d) ==
    \E k \in 1..Len(FILTER_KEYWORDS) : Contains(Lower(d), FILTER_KEYWORDS[k])

\* C7: in every normalized batch, whatever the schema, a row of the source
\* file is absent exactly when its case-folded description holds an
\* exclusion keyword; no such row is in the table.
C7_ExclusionFilter ==
    \A name \in DOMAIN normalized :
        LET rows == FileContent[name].rows
            batch == normalized[name]
        IN  /\ \A i \in 1..Len(rows) :
                  HasKeyword(rows[i]["Description"]) <=>
                      ~(\E j \in 1..Len(batch) : batch[j].idx = i)
            /\ \A i \in 1..Len(rows), x \in DOMAIN transactions :
                  (HasKeyword(rows[i]["Description"]) /\ x.filename = name)
                      => x.description # rows[i]["Description"]

\* a batch was written from which one row was dropped and one kept
C7_Witness ==
    \E name \in DOMAIN normalized :
        LET rows == FileContent[name].rows
        IN  /\ \E i \in 1..Len(rows) : HasKeyword(rows[i]["Description"])
            /\ \E i \in 1..Len(rows) : ~HasKeyword(rows[i]["Description"])
            /\ Len(normalized[name]) = 1

----------
(* Properties of the category resolver.                                    *)

\* some vendor rule's substring occurs in the lowered description
HasVendorRule(d) ==
    \E i \in 1..Len(VENDOR_MAP) : Contains(Lower(d), VENDOR_MAP[i].vendor)

\* the category of the first vendor rule, in table order, that matches
FirstRuleTag(d) ==
    VENDOR_MAP[CHOOSE i \in 1..Len(VENDOR_MAP) :
        /\ Contains(Lower(d), VENDOR_MAP[i].vendor)
        /\ \A j \in 1..(i - 1) : ~Contains(Lower(d), VENDOR_MAP[j].vendor)].tag

\* the remote call failed: no answer, a non-success status, or a body that
\* is not an object with a text "response"
RemoteFailed(r) == r.kind # "http" \/ r.status # 200 \/ r.body # "text"

RemoteSucceeded(r) == r.kind = "http" /\ r.status = 200 /\ r.body = "text"

\* C4: get_category resolves in the order vendor rule, correction memory,
\* remote service: a vendor match gives the first matching rule's category
\* whatever the memory and the service hold; without one, a memorized
\* description gives the memorized category with no request sent; a request
\* is sent only when neither matches.
C4_ResolutionOrder ==
    lastOp = "get_category" =>
        /\ HasVendorRule(description) =>
              category = FirstRuleTag(description) /\ remoteCalls = 0
        /\ (~HasVendorRule(description) /\ description \in DOMAIN FEEDBACK_TAGS) =>
              category = FEEDBACK_TAGS[description] /\ remoteCalls = 0
        /\ remoteCalls > 0 =>
              ~HasVendorRule(description) /\ description \notin DOMAIN FEEDBACK_TAGS

\* a vendor-matched description whose memorized category differs was resolved
C4_Witness ==
    /\ lastOp = "get_category"
    /\ HasVendorRule(description)
    /\ description \in DOMAIN FEEDBACK_TAGS
    /\ FEEDBACK_TAGS[description] # category
    /\ FirstRuleTag(description) = category

\* C5: when get_category reaches the remote step and the call fails
\* (timeout, network error, malformed response, non-success status), it
\* returns exactly "Uncategorized", having sent one request.
C5_FailureGivesSentinel ==
    (lastOp = "get_category" /\ remoteCalls > 0 /\ RemoteFailed(reply)) =>
        category = Uncategorized /\ remoteCalls = 1

\* C9: when the remote call succeeds with a response holding a token, the
\* category get_category returns is the first whitespace-delimited token.
C9_FirstToken ==
    (lastOp = "get_category" /\ remoteCalls > 0 /\ RemoteSucceeded(reply)
        /\ Split(reply.response) # <<>>) =>
        category = Split(reply.response)[1]

\* C10: whatever the description, the memory and the service's answer,
\* get_category returns a non-empty text.
C10_CategoryNonEmpty ==
    lastOp = "get_category" => category # <<>> /\ category # None

====
